---- MODULE Spec2Model ----
(***************************************************************************)
(* State-machine model of the context-aware Logger singleton of            *)
(* master_logger/master_logger.py: the singleton construction              *)
(* (__new__/__init__), the two ContextVar stores, the caller resolver     *)
(* over the call stack and the prefix formatter of the severity methods.   *)
(*                                                                         *)
(* Strings are sequences of one-character strings, so that formatting is   *)
(* concatenation and str.startswith is a test on the first character.      *)
(***************************************************************************)
EXTENDS Integers, Sequences, FiniteSets, TLC

VARIABLES
    SINGLETON_INSTANCE, \* Logger.SINGLETON_INSTANCE: 0 is None, else the id of an instance
    INITIALIZED,        \* Logger.INITIALIZED
    heap,               \* the attributes of each allocated Logger instance
    nvars,              \* number of ContextVar objects created so far
    sink_level,         \* level of logging.getLogger("master-logger"), 0 = NOTSET
    ctx,                \* ctx[t][v]: value of ContextVar v in the context of task t
    status,             \* lifecycle of each task
    ref,                \* ref[t]: the instance the task's `logger` name is bound to, 0 = none
    pc,                 \* position of each thread inside Logger(...)
    frame,              \* arguments and self of each task's latest Logger(...) call
    first,              \* arguments and result of the first completed Logger(...) call
    own,                \* own[t]: what task t started with and has itself set since
    birth,              \* the values each task was started with
    call,               \* the call site the program logs from: stack, message, flask state
    last,               \* the last call made on the sink
    raised              \* raised[t]: the exception that escaped the task's last Logger call

vars == << SINGLETON_INSTANCE, INITIALIZED, heap, nvars, sink_level, ctx, status,
           ref, pc, frame, first, own, birth, call, last, raised >>

-----------------------------------------------------------------------------
(* Bounds *)

\* number of distinct non-empty values each task may pass to a setter
NumValues == 1
\* source lines a caller frame may be at
MaxLine == 2
\* number of frames below the frame that makes the log call
MaxOuter == 1

-----------------------------------------------------------------------------
(* Strings *)

EmptyStr == << >>
DigitChar(d) == << "0", "1", "2", "3", "4", "5", "6", "7", "8", "9" >>[d + 1]

RECURSIVE IntToStr(_)
\* str(n) for a non-negative integer, as the f-string renders f_lineno
IntToStr(n) ==
    IF n < 10 THEN << DigitChar(n) >>
    ELSE IntToStr(n \div 10) \o << DigitChar(n % 10) >>

\* s.startswith(c) for a one-character c
StartsWith(s, c) == Len(s) > 0 /\ s[1] = c

\* whether v occurs in s as a substring
Contains(s, v) ==
    \E i \in 1..(Len(s) - Len(v) + 1) : SubSeq(s, i, i + Len(v) - 1) = v

\* Python truthiness of a string
Truthy(s) == s # EmptyStr

LoggerName == << "L", "o", "g", "g", "e", "r" >>

-----------------------------------------------------------------------------
(* Tasks and the values they use *)

Tasks == { "main", "A", "B" }
Children == { "A", "B" }
TaskChar(t) == CASE t = "main" -> "m" [] t = "A" -> "a" [] t = "B" -> "b"

\* the non-empty values task t passes to the setters; pools of different tasks are disjoint
Pool(t) == { << TaskChar(t), DigitChar(i) >> : i \in 1..(IF t = "main" THEN 1 ELSE NumValues) }
SetterArgs(t) == Pool(t) \cup { EmptyStr }

\* logging's level numbers; logger.exception logs at ERROR with exc_info
Levelno ==
    [ DEBUG |-> 10, INFO |-> 20, WARNING |-> 30, ERROR |-> 40, CRITICAL |-> 50,
      EXCEPTION |-> 40 ]
\* the values of logger_level the program constructs the Logger with
LevelArgs == { Levelno["DEBUG"], Levelno["WARNING"] }

\* every task can allocate at most one instance: __new__ allocates once per call in flight
MaxInstances == Cardinality(Tasks)
Instances == 1..MaxInstances
\* every run of the body of __init__ creates two ContextVar objects
MaxVars == 2 * MaxInstances
VarIds == 1..MaxVars

-----------------------------------------------------------------------------
(* Classes, objects and frames as inspect.stack() shows them *)

LoggerClass == [ name |-> LoggerName, module |-> "master_logger" ]
Worker == [ name |-> << "W" >>, module |-> "app" ]
\* another class that happens to be called Logger
AppLogger == [ name |-> LoggerName, module |-> "app" ]
NoneType == [ name |-> << "N" >>, module |-> "builtins" ]
TypeType == [ name |-> << "t" >>, module |-> "builtins" ]

\* a local binding: absent, an instance of a class, or a class object
NoLocal == [ present |-> FALSE, isclass |-> FALSE, class |-> NoneType ]
Obj(c) == [ present |-> TRUE, isclass |-> FALSE, class |-> c ]
Cls(c) == [ present |-> TRUE, isclass |-> TRUE, class |-> c ]

\* type(x), where x is what f_locals.get(name) returns (None when absent)
TypeOf(x) == IF ~x.present THEN NoneType ELSE IF x.isclass THEN TypeType ELSE x.class

Lines == { 9 + i : i \in 0..(MaxLine - 1) }
FnName == << "f" >>
ModuleName == << "<", "m", "o", "d", ">" >>

Frame(kind, name, line, receiver, self, cls) ==
    [ kind |-> kind, co_name |-> name, f_lineno |-> line,
      receiver |-> receiver, self |-> self, cls |-> cls ]

\* the shapes a frame that calls the logger can have: (kind, co_name, receiver, self, cls)
CallerShapes ==
    { << "function", FnName, NoLocal, NoLocal, NoLocal >>,
      << "function", FnName, NoLocal, Obj(Worker), NoLocal >>,
      << "function", FnName, NoLocal, NoLocal, Cls(Worker) >>,
      << "function", FnName, NoLocal, NoLocal, Cls(LoggerClass) >>,
      << "function", FnName, NoLocal, NoLocal, Obj(Worker) >>,
      << "staticmethod", FnName, NoLocal, NoLocal, NoLocal >>,
      << "method", FnName, Obj(Worker), Obj(Worker), NoLocal >>,
      << "method", FnName, Obj(Worker), NoLocal, NoLocal >>,
      << "method", FnName, Obj(Worker), Obj(Worker), Cls(AppLogger) >>,
      << "method", Worker.name, Obj(Worker), Obj(Worker), NoLocal >>,
      << "method", FnName, Obj(AppLogger), Obj(AppLogger), NoLocal >>,
      << "classmethod", FnName, Cls(Worker), NoLocal, Cls(Worker) >>,
      << "classmethod", FnName, Cls(Worker), NoLocal, NoLocal >>,
      << "module", ModuleName, NoLocal, NoLocal, NoLocal >> }

CallerFrames ==
    { Frame(s[1], s[2], l, s[3], s[4], s[5]) : s \in CallerShapes, l \in Lines }

ModuleFrame == Frame("module", ModuleName, 1, NoLocal, NoLocal, NoLocal)

RECURSIVE Outer(_)
\* n module frames: what lies below the calling frame
Outer(n) == IF n = 0 THEN << >> ELSE << ModuleFrame >> \o Outer(n - 1)

\* the frames of the program, innermost first, at the moment it calls the logger
UserStacks == { << f >> \o Outer(n) : f \in CallerFrames, n \in 0..MaxOuter }

\* a frame of a Logger method; self is the Logger instance
LoggerFrame(name, line) ==
    Frame("method", name, line, Obj(LoggerClass), Obj(LoggerClass), NoLocal)

MethodName(levelname) ==
    CASE levelname = "DEBUG" -> << "d" >>
      [] levelname = "INFO" -> << "i" >>
      [] levelname = "WARNING" -> << "w" >>
      [] levelname = "ERROR" -> << "e" >>
      [] levelname = "CRITICAL" -> << "c" >>
      [] levelname = "EXCEPTION" -> << "x" >>

\* inspect.stack() inside _get_caller_from_stack, called from a severity method
InspectStack(levelname, user) ==
    << LoggerFrame(<< "g", "c" >>, 99), LoggerFrame(<< "g", "s" >>, 141),
       LoggerFrame(MethodName(levelname), 160) >> \o user

-----------------------------------------------------------------------------
(* The caller resolver *)

Resolved(c, m, l) == [ ok |-> TRUE, class_name |-> c, name |-> m, line |-> l ]
\* an exception raised during resolution
ResolveError == [ ok |-> FALSE, class_name |-> EmptyStr, name |-> EmptyStr, line |-> EmptyStr ]

\* a _get_class_name that looks for 'cls' before 'self'
_get_class_name_cls_first(stack_frame) ==
    IF stack_frame.cls.present
    THEN IF stack_frame.cls.isclass
         THEN [ ok |-> TRUE, value |-> stack_frame.cls.class.name ]
         ELSE [ ok |-> FALSE, value |-> EmptyStr ]
    ELSE IF stack_frame.self.present
    THEN [ ok |-> TRUE, value |-> TypeOf(stack_frame.self).name ]
    ELSE [ ok |-> TRUE, value |-> EmptyStr ]

\* _get_class_name: ok is FALSE when the attribute lookup raises AttributeError
_get_class_name(stack_frame) ==
    IF stack_frame.self.present
    THEN [ ok |-> TRUE, value |-> TypeOf(stack_frame.self).name ]
    ELSE IF stack_frame.cls.present
    THEN IF stack_frame.cls.isclass
         THEN [ ok |-> TRUE, value |-> stack_frame.cls.class.name ]
         ELSE [ ok |-> FALSE, value |-> EmptyStr ]
    ELSE [ ok |-> TRUE, value |-> EmptyStr ]

\* a resolver that skips no frame
IsLoggerFrameNever(f) == FALSE

\* type(stack[i][0].f_locals.get("self")) is Logger
IsLoggerFrame(f) == TypeOf(f.self) = LoggerClass

\* _get_caller_from_stack: the loop runs over range(len(stack) - 1)
_get_caller_from_stack(stack) ==
    LET idx == { i \in 1..(Len(stack) - 1) : ~IsLoggerFrame(stack[i]) }
    IN  IF idx = {} THEN Resolved(EmptyStr, EmptyStr, EmptyStr)
        ELSE LET i == CHOOSE j \in idx : \A k \in idx : j <= k
                 cn == _get_class_name(stack[i])
             IN  IF cn.ok
                 THEN Resolved(cn.value, stack[i].co_name, IntToStr(stack[i].f_lineno))
                 ELSE ResolveError

\* a formatter whose try has no except clause
ResolverCatchesNone(e) == FALSE

\* except Exception, around the call of _get_caller_from_stack; every error the
\* inspection raises here is an Exception
ResolverCatches(e) == e \in { "AttributeError", "IndexError", "OSError" }

\* the exception _get_caller_from_stack raises for a call site: the one inspect.stack()
\* raises, or the AttributeError of _get_class_name; "" when it returns
ResolutionError(inspect, stack) ==
    IF inspect # "" THEN inspect
    ELSE IF ~_get_caller_from_stack(stack).ok THEN "AttributeError"
    ELSE ""

\* lines 140-143 of _get_context_string: the caller used for the prefix, and the
\* exception that leaves the try statement ("" when none does)
TryResolve(inspect, stack) ==
    LET e == ResolutionError(inspect, stack)
    IN  IF e = "" THEN [ caller |-> _get_caller_from_stack(stack), error |-> "" ]
        ELSE IF ResolverCatches(e) THEN [ caller |-> ResolveError, error |-> "" ]
        ELSE [ caller |-> ResolveError, error |-> e ]

-----------------------------------------------------------------------------
(* The execution context and the flask fallback *)

Rid == << "r", "1" >>
\* what `from flask import ...` and the request object give at the moment of the call:
\* flask is not installed, the import or the read of request.request_id raises an
\* error of another class, no request is in flight, or a request is, with or
\* without a request_id
FlaskStates ==
    { [ kind |-> "ModuleNotFoundError", request_id |-> EmptyStr ],
      [ kind |-> "RuntimeError", request_id |-> EmptyStr ],
      [ kind |-> "ValueError", request_id |-> EmptyStr ],
      [ kind |-> "no_request_context", request_id |-> EmptyStr ],
      [ kind |-> "no_request_id", request_id |-> EmptyStr ],
      [ kind |-> "request_id", request_id |-> Rid ] }

\* the outcomes of the lookup in which no exception is raised
FlaskReturns == { "no_request_context", "no_request_id", "request_id" }

\* except (ModuleNotFoundError, ImportError, RuntimeError, AttributeError)
LookupCatches(e) ==
    e \in { "ModuleNotFoundError", "ImportError", "RuntimeError", "AttributeError" }

\* a read that ignores the calling task and takes the context the program started in
VarGetOfMain(t, v) == ctx["main"][v]

\* ContextVar.get() in the context of task t; the default is ""
VarGet(t, v) == ctx[t][v]

\* the order of the sequential master-logger.py: the request id first, then the store
get_execution_context_request_first(t, self, flask) ==
    IF flask.kind = "request_id"
    THEN [ value |-> flask.request_id, consulted |-> TRUE, error |-> "" ]
    ELSE [ value |-> VarGet(t, heap[self].execution_context), consulted |-> TRUE,
           error |-> "" ]

\* get_execution_context: the value returned, whether flask was consulted, and the
\* exception that leaves the method ("" when none does)
get_execution_context(t, self, flask) ==
    LET execution_context == VarGet(t, heap[self].execution_context)
    IN  IF Truthy(execution_context)
        THEN [ value |-> execution_context, consulted |-> FALSE, error |-> "" ]
        ELSE IF flask.kind \in { "request_id", "no_request_id" }
        THEN [ value |-> flask.request_id, consulted |-> TRUE, error |-> "" ]
        ELSE IF flask.kind \in FlaskReturns \/ LookupCatches(flask.kind)
        THEN [ value |-> EmptyStr, consulted |-> TRUE, error |-> "" ]
        ELSE [ value |-> EmptyStr, consulted |-> TRUE, error |-> flask.kind ]

-----------------------------------------------------------------------------
(* The formatter *)

Bracket(s) == << "[" >> \o s \o << "]" >>

\* a bracket added whether or not there is a value
OptBracketAlways(s) == Bracket(s)

\* if value: prefix += f"[{value}]"
OptBracket(s) == IF Truthy(s) THEN Bracket(s) ELSE EmptyStr

\* a formatter that appends the line number whatever the flag says
LineSuffixAlways(self, line_number) == << ":" >> \o line_number

\* what follows the function name inside its bracket
LineSuffix(self, line_number) ==
    IF heap[self].log_line_number THEN << ":" >> \o line_number ELSE EmptyStr

\* _get_context_string from line 145 on, for the caller that lines 140-143 give
ContextString(t, self, got, flask) ==
    LET execution_context == get_execution_context(t, self, flask).value
        class_name == got.class_name
        method_or_function_name == got.name
        line_number == got.line
        context_key == VarGet(t, heap[self].context_key)
        p1 == OptBracket(execution_context)
        p2 == OptBracket(class_name)
        p3 == IF Truthy(method_or_function_name)
              THEN << "[" >> \o method_or_function_name
                   \o LineSuffix(self, line_number)
                   \o << "]" >>
              ELSE EmptyStr
        p4 == OptBracket(context_key)
    IN  p1 \o p2 \o p3 \o p4

\* _get_context_string when inspect.stack() returns stack
_get_context_string(t, self, stack, flask) ==
    ContextString(t, self, TryResolve("", stack).caller, flask)

\* _get_context_string of the sequential master-logger.py, from the resolved values on
legacy_get_context_string(execution_context, service, method, context_key) ==
    (IF Truthy(execution_context) THEN Bracket(execution_context) ELSE EmptyStr)
    \o (IF Truthy(service) /\ service # LoggerName THEN Bracket(service) ELSE EmptyStr)
    \o (IF Truthy(method) /\ method # service THEN Bracket(method) ELSE EmptyStr)
    \o (IF Truthy(context_key) THEN Bracket(context_key) ELSE EmptyStr)

\* a separator that does not look at the message
FormatLineAlwaysSpace(prefix, message) == prefix \o << " " >> \o message

\* the f-string of the severity methods
FormatLine(prefix, message) ==
    prefix \o (IF StartsWith(message, "[") THEN EmptyStr ELSE << " " >>) \o message

Hello == << "h", "e", "l", "l", "o" >>
Messages == { Hello, << "[", "x", "]", " " >> \o Hello, EmptyStr }

-----------------------------------------------------------------------------
(* State *)

\* an instance before __init__ has set anything on it
BlankInstance ==
    [ allocated |-> FALSE, execution_context |-> 0, context_key |-> 0,
      has_log_line_number |-> FALSE, log_line_number |-> FALSE, logger |-> FALSE ]

EmptyContext == [ v \in VarIds |-> EmptyStr ]
NoValues == [ execution_context |-> EmptyStr, context_key |-> EmptyStr ]

NoFirst == [ done |-> FALSE, task |-> "none", instance |-> 0, log_line_number |-> FALSE,
             logger_level |-> 0 ]

NoFrame == [ log_line_number |-> FALSE, logger_level |-> 0, self |-> 0 ]

NoLine ==
    [ task |-> "none", levelname |-> "NONE", text |-> EmptyStr, exc_info |-> FALSE,
      written |-> FALSE, prefix |-> EmptyStr, scope |-> EmptyStr, key |-> EmptyStr,
      consulted |-> FALSE, log_line_number |-> FALSE, raced |-> FALSE,
      caller |-> Resolved(EmptyStr, EmptyStr, EmptyStr) ]

NumAllocated == Cardinality({ i \in Instances : heap[i].allocated })

\* every attribute the methods read is set on the instance
Usable(self) ==
    /\ self # 0
    /\ heap[self].execution_context # 0
    /\ heap[self].context_key # 0
    /\ heap[self].has_log_line_number
    /\ heap[self].logger

InitCommon ==
    /\ SINGLETON_INSTANCE = 0
    /\ INITIALIZED = FALSE
    /\ heap = [ i \in Instances |-> BlankInstance ]
    /\ nvars = 0
    /\ sink_level = 0
    /\ ctx = [ t \in Tasks |-> EmptyContext ]
    /\ ref = [ t \in Tasks |-> 0 ]
    /\ pc = [ t \in Tasks |-> "idle" ]
    /\ frame = [ t \in Tasks |-> NoFrame ]
    /\ first = NoFirst
    /\ own = [ t \in Tasks |-> NoValues ]
    /\ birth = [ t \in Tasks |-> NoValues ]
    /\ last = NoLine
    /\ raised = [ t \in Tasks |-> "" ]

-----------------------------------------------------------------------------
(* Construction: Logger(log_line_number, logger_level), run without interruption *)

\* __new__: the instance returned and the new value of SINGLETON_INSTANCE
__new__(singleton, fresh) ==
    IF singleton = 0
    THEN [ ret |-> fresh, singleton |-> fresh, allocates |-> TRUE ]
    ELSE [ ret |-> singleton, singleton |-> singleton, allocates |-> FALSE ]

\* an __init__ without the guard, as the one of the sequential master-logger.py
InitRunsAlways(initialized) == TRUE

\* whether __init__ goes past its guard on self.INITIALIZED
InitRuns(initialized) == ~initialized

\* the attributes after the body of __init__ has run on an instance
InitBody(log_line_number, nv) ==
    [ allocated |-> TRUE, execution_context |-> nv + 1, context_key |-> nv + 2,
      has_log_line_number |-> TRUE, log_line_number |-> log_line_number, logger |-> TRUE ]

Construct(t, log_line_number, logger_level) ==
    /\ status[t] = "running"
    /\ pc[t] = "idle"
    /\ SINGLETON_INSTANCE = 0 => NumAllocated < MaxInstances
    /\ LET n == __new__(SINGLETON_INSTANCE, NumAllocated + 1)
           self == n.ret
           allocated == IF n.allocates
                        THEN [ heap EXCEPT ![self] = [ BlankInstance EXCEPT !.allocated = TRUE ] ]
                        ELSE heap
       IN  /\ SINGLETON_INSTANCE' = n.singleton
           /\ IF InitRuns(INITIALIZED)
              THEN /\ nvars + 2 <= MaxVars
                   /\ heap' = [ allocated EXCEPT ![self] = InitBody(log_line_number, nvars) ]
                   /\ nvars' = nvars + 2
                   /\ sink_level' = logger_level
                   /\ INITIALIZED' = TRUE
              ELSE /\ heap' = allocated
                   /\ UNCHANGED << nvars, sink_level, INITIALIZED >>
           /\ ref' = [ ref EXCEPT ![t] = self ]
           /\ first' = IF first.done THEN first
                       ELSE [ done |-> TRUE, task |-> t, instance |-> self,
                              log_line_number |-> log_line_number,
                              logger_level |-> logger_level ]
    /\ frame' = [ frame EXCEPT ![t] = [ log_line_number |-> log_line_number,
                                        logger_level |-> logger_level,
                                        self |-> ref'[t] ] ]
    /\ UNCHANGED << ctx, status, pc, own, birth, call, last, raised >>

-----------------------------------------------------------------------------
(* The setters *)

\* a store that is one attribute shared by every task, as in the sequential master-logger.py
VarSetShared(c, t, v, value) == [ u \in Tasks |-> [ c[u] EXCEPT ![v] = value ] ]

\* ContextVar.set(value) in the context of task t
VarSet(c, t, v, value) == [ c EXCEPT ![t][v] = value ]

set_context_key(t, context_key) ==
    /\ status[t] = "running"
    /\ pc[t] \in { "idle", "done" }
    /\ ref[t] # 0
    /\ IF heap[ref[t]].context_key # 0
       THEN /\ ctx' = VarSet(ctx, t, heap[ref[t]].context_key, context_key)
            /\ own' = [ own EXCEPT ![t].context_key = context_key ]
            /\ raised' = [ raised EXCEPT ![t] = "" ]
       ELSE /\ raised' = [ raised EXCEPT ![t] = "AttributeError" ]
            /\ UNCHANGED << ctx, own >>
    /\ UNCHANGED << SINGLETON_INSTANCE, INITIALIZED, heap, nvars, sink_level, status,
                    ref, pc, frame, first, birth, call, last >>

set_execution_context(t, execution_context) ==
    /\ status[t] = "running"
    /\ pc[t] \in { "idle", "done" }
    /\ ref[t] # 0
    /\ IF heap[ref[t]].execution_context # 0
       THEN /\ ctx' = VarSet(ctx, t, heap[ref[t]].execution_context, execution_context)
            /\ own' = [ own EXCEPT ![t].execution_context = execution_context ]
            /\ raised' = [ raised EXCEPT ![t] = "" ]
       ELSE /\ raised' = [ raised EXCEPT ![t] = "AttributeError" ]
            /\ UNCHANGED << ctx, own >>
    /\ UNCHANGED << SINGLETON_INSTANCE, INITIALIZED, heap, nvars, sink_level, status,
                    ref, pc, frame, first, birth, call, last >>

-----------------------------------------------------------------------------
(* The severity methods *)

\* the call made on the underlying logger by a severity method of instance self
SinkCall(t, self, levelname) ==
    LET got == TryResolve(call.inspect, InspectStack(levelname, call.stack))
        prefix == ContextString(t, self, got.caller, call.flask)
        ec == get_execution_context(t, self, call.flask)
    IN  [ task |-> t, levelname |-> levelname,
          text |-> FormatLine(prefix, call.message),
          exc_info |-> (levelname = "EXCEPTION"),
          written |-> (Levelno[levelname] >= sink_level),
          prefix |-> prefix,
          scope |-> own[t].execution_context,
          key |-> own[t].context_key,
          consulted |-> ec.consulted,
          log_line_number |-> heap[self].log_line_number,
          caller |-> got.caller,
          raced |-> \E u \in Tasks \ { t } :
                      status[u] = "running" /\ \E v \in VarIds : ctx[u][v] \in Pool(u) ]

\* the exception that leaves a severity method of a usable instance: the one of
\* get_execution_context (line 138), else the one of the try statement
Escapes(t, self, levelname) ==
    LET ec == get_execution_context(t, self, call.flask)
    IN  IF ec.error # "" THEN ec.error
        ELSE TryResolve(call.inspect, InspectStack(levelname, call.stack)).error

Log(t, levelname) ==
    /\ status[t] = "running"
    /\ pc[t] \in { "idle", "done" }
    /\ ref[t] # 0
    /\ IF ~Usable(ref[t])
       THEN /\ raised' = [ raised EXCEPT ![t] = "AttributeError" ]
            /\ UNCHANGED last
       ELSE IF Escapes(t, ref[t], levelname) # ""
       THEN /\ raised' = [ raised EXCEPT ![t] = Escapes(t, ref[t], levelname) ]
            /\ UNCHANGED last
       ELSE /\ last' = SinkCall(t, ref[t], levelname)
            /\ raised' = [ raised EXCEPT ![t] = "" ]
    /\ UNCHANGED << SINGLETON_INSTANCE, INITIALIZED, heap, nvars, sink_level, ctx, status,
                    ref, pc, frame, first, own, birth, call >>

debug(t) == Log(t, "DEBUG")
info(t) == Log(t, "INFO")
warning(t) == Log(t, "WARNING")
error(t) == Log(t, "ERROR")
critical(t) == Log(t, "CRITICAL")
exception(t) == Log(t, "EXCEPTION")

-----------------------------------------------------------------------------
(* Tasks of one event loop: asyncio copies the current context into a new task *)

Spawn(t) ==
    /\ t \in Children
    /\ status["main"] = "running"
    /\ status[t] = "unborn"
    /\ status' = [ status EXCEPT ![t] = "running" ]
    /\ ctx' = [ ctx EXCEPT ![t] = ctx["main"] ]
    /\ own' = [ own EXCEPT ![t] = own["main"] ]
    /\ birth' = [ birth EXCEPT ![t] = own["main"] ]
    /\ ref' = [ ref EXCEPT ![t] = ref["main"] ]
    /\ UNCHANGED << SINGLETON_INSTANCE, INITIALIZED, heap, nvars, sink_level, pc, frame,
                    first, call, last, raised >>

\* the task returns; its context goes with it
Finish(t) ==
    /\ t \in Children
    /\ status[t] = "running"
    /\ pc[t] \in { "idle", "done" }
    /\ status' = [ status EXCEPT ![t] = "done" ]
    /\ ctx' = [ ctx EXCEPT ![t] = EmptyContext ]
    /\ own' = [ own EXCEPT ![t] = NoValues ]
    /\ UNCHANGED << SINGLETON_INSTANCE, INITIALIZED, heap, nvars, sink_level, ref, pc,
                    frame, first, birth, call, last, raised >>

\* the call sites of the tasks of asyncio_example.py: a coroutine function, no flask request
TaskCallSites ==
    { [ stack |-> << f >> \o Outer(1), inspect |-> "", message |-> Hello, flask |-> fl ] :
        f \in { Frame("function", FnName, 9, NoLocal, NoLocal, NoLocal) },
        fl \in { x \in FlaskStates : x.kind = "ModuleNotFoundError" } }

\* the call sites of a program of one task: a function, at any line, under any flask state
CtorCallSites ==
    { [ stack |-> << Frame("function", FnName, l, NoLocal, NoLocal, NoLocal) >> \o Outer(1),
        inspect |-> "", message |-> Hello, flask |-> fl ] : l \in Lines, fl \in FlaskStates }

\* one task that calls Logger(...) again and again between its other calls
InitCtor ==
    /\ InitCommon
    /\ status = [ t \in Tasks |-> IF t = "main" THEN "running" ELSE "unborn" ]
    /\ call \in CtorCallSites

NextCtor ==
    \/ \E l \in BOOLEAN, lv \in LevelArgs : Construct("main", l, lv)
    \/ \E v \in SetterArgs("main") : set_execution_context("main", v)
    \/ \E v \in SetterArgs("main") : set_context_key("main", v)
    \/ debug("main")
    \/ info("main")
    \/ warning("main")
    \/ error("main")
    \/ critical("main")
    \/ exception("main")

SpecCtor == InitCtor /\ [][NextCtor]_vars

\* what inspect.stack() raises when it cannot build the frame records
InspectErrors == { "IndexError" }

\* every call site: any stack of the program, any message, any flask state; and the
\* sites of a method at which inspect.stack() raises
FmtCallSites ==
    { [ stack |-> st, inspect |-> "", message |-> m, flask |-> fl ] :
        st \in UserStacks, m \in Messages, fl \in FlaskStates }
    \cup
    { [ stack |-> << Frame("method", FnName, 9, Obj(Worker), Obj(Worker), NoLocal) >>
                    \o Outer(1),
        inspect |-> e, message |-> m, flask |-> fl ] :
        e \in InspectErrors, m \in Messages, fl \in FlaskStates }

\* a constructed Logger with any flag, and a task that has set any scope and tag
InitFmt ==
    /\ SINGLETON_INSTANCE = 1
    /\ INITIALIZED = TRUE
    /\ \E l \in BOOLEAN : heap = [ i \in Instances |->
                                     IF i = 1 THEN InitBody(l, 0) ELSE BlankInstance ]
    /\ nvars = 2
    /\ sink_level = Levelno["DEBUG"]
    /\ \E e \in SetterArgs("main"), k \in SetterArgs("main") :
          /\ own = [ t \in Tasks |-> IF t = "main"
                                     THEN [ execution_context |-> e, context_key |-> k ]
                                     ELSE NoValues ]
          /\ ctx = [ t \in Tasks |-> IF t = "main"
                                     THEN [ v \in VarIds |-> IF v = 1 THEN e
                                                             ELSE IF v = 2 THEN k
                                                             ELSE EmptyStr ]
                                     ELSE EmptyContext ]
    /\ ref = [ t \in Tasks |-> IF t = "main" THEN 1 ELSE 0 ]
    /\ pc = [ t \in Tasks |-> "idle" ]
    /\ frame = [ t \in Tasks |-> NoFrame ]
    /\ first = [ done |-> TRUE, task |-> "main", instance |-> 1,
                 log_line_number |-> heap[1].log_line_number,
                 logger_level |-> sink_level ]
    /\ birth = [ t \in Tasks |-> NoValues ]
    /\ last = NoLine
    /\ raised = [ t \in Tasks |-> "" ]
    /\ status = [ t \in Tasks |-> IF t = "main" THEN "running" ELSE "unborn" ]
    /\ call \in FmtCallSites

NextFmt ==
    \/ debug("main")
    \/ info("main")
    \/ warning("main")
    \/ error("main")
    \/ critical("main")
    \/ exception("main")

SpecFmt == InitFmt /\ [][NextFmt]_vars

\* the module-level `logger = Logger(...)` has run in main before the tasks start
Init ==
    /\ SINGLETON_INSTANCE = 1
    /\ INITIALIZED = TRUE
    /\ \E l \in BOOLEAN : heap = [ i \in Instances |->
                                     IF i = 1 THEN InitBody(l, 0) ELSE BlankInstance ]
    /\ nvars = 2
    /\ sink_level = Levelno["DEBUG"]
    /\ ctx = [ t \in Tasks |-> EmptyContext ]
    /\ ref = [ t \in Tasks |-> IF t = "main" THEN 1 ELSE 0 ]
    /\ pc = [ t \in Tasks |-> "idle" ]
    /\ frame = [ t \in Tasks |-> NoFrame ]
    /\ first = [ done |-> TRUE, task |-> "main", instance |-> 1,
                 log_line_number |-> heap[1].log_line_number,
                 logger_level |-> Levelno["DEBUG"] ]
    /\ own = [ t \in Tasks |-> NoValues ]
    /\ birth = [ t \in Tasks |-> NoValues ]
    /\ last = NoLine
    /\ raised = [ t \in Tasks |-> "" ]
    /\ status = [ t \in Tasks |-> IF t = "main" THEN "running" ELSE "unborn" ]
    /\ call \in TaskCallSites

\* main sets the execution scope its children start with, as the middleware of
\* fastapi_request_id.py does; the children set both stores
Next ==
    \/ \E t \in Tasks : Spawn(t)
    \/ \E t \in Tasks : \E v \in SetterArgs(t) : set_execution_context(t, v)
    \/ \E t \in Children : \E v \in SetterArgs(t) : set_context_key(t, v)
    \/ \E t \in Tasks : debug(t)
    \/ \E t \in Tasks : Finish(t)

Spec == Init /\ [][Next]_vars

-----------------------------------------------------------------------------
(* Logger(...) called from threads: the interpreter may switch threads between any
   two of the steps below. Each thread has a context of its own. *)

Threads == Children

\* the part of the state the construction steps leave alone
ThreadFrame == << ctx, status, own, birth, call, last, raised >>

\* Logger(log_line_number, logger_level) is entered
CallLogger(t, log_line_number, logger_level) ==
    /\ pc[t] = "idle"
    /\ pc' = [ pc EXCEPT ![t] = "new_check" ]
    /\ frame' = [ frame EXCEPT ![t] = [ log_line_number |-> log_line_number,
                                        logger_level |-> logger_level, self |-> 0 ] ]
    /\ UNCHANGED << SINGLETON_INSTANCE, INITIALIZED, heap, nvars, sink_level, ref, first >>
    /\ UNCHANGED ThreadFrame

\* __new__: if not cls.SINGLETON_INSTANCE
new_check(t) ==
    /\ pc[t] = "new_check"
    /\ pc' = [ pc EXCEPT ![t] = IF SINGLETON_INSTANCE = 0 THEN "new_alloc" ELSE "new_return" ]
    /\ UNCHANGED << SINGLETON_INSTANCE, INITIALIZED, heap, nvars, sink_level, ref, frame,
                    first >>
    /\ UNCHANGED ThreadFrame

\* __new__: cls.SINGLETON_INSTANCE = super(Logger, cls).__new__(cls, )
new_alloc(t) ==
    /\ pc[t] = "new_alloc"
    /\ NumAllocated < MaxInstances
    /\ heap' = [ heap EXCEPT ![NumAllocated + 1] = [ BlankInstance EXCEPT !.allocated = TRUE ] ]
    /\ SINGLETON_INSTANCE' = NumAllocated + 1
    /\ pc' = [ pc EXCEPT ![t] = "new_return" ]
    /\ UNCHANGED << INITIALIZED, nvars, sink_level, ref, frame, first >>
    /\ UNCHANGED ThreadFrame

\* __new__: return cls.SINGLETON_INSTANCE
new_return(t) ==
    /\ pc[t] = "new_return"
    /\ frame' = [ frame EXCEPT ![t].self = SINGLETON_INSTANCE ]
    /\ pc' = [ pc EXCEPT ![t] = "init_check" ]
    /\ UNCHANGED << SINGLETON_INSTANCE, INITIALIZED, heap, nvars, sink_level, ref, first >>
    /\ UNCHANGED ThreadFrame

\* Logger(...) returns and the thread binds the instance to its name
Returned(t) ==
    /\ ref' = [ ref EXCEPT ![t] = frame[t].self ]
    /\ first' = IF first.done THEN first
                ELSE [ done |-> TRUE, task |-> t, instance |-> frame[t].self,
                       log_line_number |-> frame[t].log_line_number,
                       logger_level |-> frame[t].logger_level ]

\* __init__: if self.INITIALIZED: return
init_check(t) ==
    /\ pc[t] = "init_check"
    /\ IF InitRuns(INITIALIZED)
       THEN /\ pc' = [ pc EXCEPT ![t] = "init_execution_context" ]
            /\ UNCHANGED << ref, first >>
       ELSE /\ pc' = [ pc EXCEPT ![t] = "done" ]
            /\ Returned(t)
    /\ UNCHANGED << SINGLETON_INSTANCE, INITIALIZED, heap, nvars, sink_level, frame >>
    /\ UNCHANGED ThreadFrame

\* __init__: self.execution_context = contextvars.ContextVar(...)
init_execution_context(t) ==
    /\ pc[t] = "init_execution_context"
    /\ nvars < MaxVars
    /\ heap' = [ heap EXCEPT ![frame[t].self].execution_context = nvars + 1 ]
    /\ nvars' = nvars + 1
    /\ pc' = [ pc EXCEPT ![t] = "init_context_key" ]
    /\ UNCHANGED << SINGLETON_INSTANCE, INITIALIZED, sink_level, ref, frame, first >>
    /\ UNCHANGED ThreadFrame

\* __init__: self.context_key = contextvars.ContextVar(...)
init_context_key(t) ==
    /\ pc[t] = "init_context_key"
    /\ nvars < MaxVars
    /\ heap' = [ heap EXCEPT ![frame[t].self].context_key = nvars + 1 ]
    /\ nvars' = nvars + 1
    /\ pc' = [ pc EXCEPT ![t] = "init_log_line_number" ]
    /\ UNCHANGED << SINGLETON_INSTANCE, INITIALIZED, sink_level, ref, frame, first >>
    /\ UNCHANGED ThreadFrame

\* __init__: self.log_line_number = log_line_number
init_log_line_number(t) ==
    /\ pc[t] = "init_log_line_number"
    /\ heap' = [ heap EXCEPT ![frame[t].self].has_log_line_number = TRUE,
                             ![frame[t].self].log_line_number = frame[t].log_line_number ]
    /\ pc' = [ pc EXCEPT ![t] = "init_logger" ]
    /\ UNCHANGED << SINGLETON_INSTANCE, INITIALIZED, nvars, sink_level, ref, frame, first >>
    /\ UNCHANGED ThreadFrame

\* __init__: basicConfig; self.logger = getLogger(...); self.logger.setLevel(logger_level)
init_logger(t) ==
    /\ pc[t] = "init_logger"
    /\ heap' = [ heap EXCEPT ![frame[t].self].logger = TRUE ]
    /\ sink_level' = frame[t].logger_level
    /\ pc' = [ pc EXCEPT ![t] = "init_initialized" ]
    /\ UNCHANGED << SINGLETON_INSTANCE, INITIALIZED, nvars, ref, frame, first >>
    /\ UNCHANGED ThreadFrame

\* __init__: Logger.INITIALIZED = True, and the call returns
init_initialized(t) ==
    /\ pc[t] = "init_initialized"
    /\ INITIALIZED' = TRUE
    /\ pc' = [ pc EXCEPT ![t] = "done" ]
    /\ Returned(t)
    /\ UNCHANGED << SINGLETON_INSTANCE, heap, nvars, sink_level, frame >>
    /\ UNCHANGED ThreadFrame

\* the call site of the threads: a thread function below which threading's run() lies
ThreadCallSites ==
    { [ stack |-> << Frame("function", FnName, 9, NoLocal, NoLocal, NoLocal) >> \o Outer(1),
        inspect |-> "", message |-> Hello,
        flask |-> [ kind |-> "ModuleNotFoundError", request_id |-> EmptyStr ] ] }

\* two threads, each about to make the program's first Logger(...) call
InitThreads ==
    /\ InitCommon
    /\ status = [ t \in Tasks |-> IF t \in Threads THEN "running" ELSE "unborn" ]
    /\ call \in ThreadCallSites

NextThreads ==
    \E t \in Threads :
        \/ \E l \in BOOLEAN : CallLogger(t, l, Levelno[IF l THEN "DEBUG" ELSE "WARNING"])
        \/ new_check(t)
        \/ new_alloc(t)
        \/ new_return(t)
        \/ init_check(t)
        \/ init_execution_context(t)
        \/ init_context_key(t)
        \/ init_log_line_number(t)
        \/ init_logger(t)
        \/ init_initialized(t)
        \/ (pc[t] = "done" /\ \E v \in SetterArgs(t) : set_execution_context(t, v))
        \/ (pc[t] = "done" /\ \E v \in SetterArgs(t) : set_context_key(t, v))
        \/ (pc[t] = "done" /\ debug(t))

SpecThreads == InitThreads /\ [][NextThreads]_vars

-----------------------------------------------------------------------------
(* Isolation of the stores between tasks *)

ExecVar(t) == heap[ref[t]].execution_context
KeyVar(t) == heap[ref[t]].context_key

\* C1: a line logged by a task contains no value that another task passed to a
\* setter while the two ran side by side: a value of another task's pool shows in
\* the line only if it is one of the values the logging task was started with.
C1_Isolation ==
    last.task \in Tasks =>
        \A u \in Tasks \ { last.task } : \A v \in Pool(u) :
            Contains(last.text, v) =>
                v \in { birth[last.task].execution_context, birth[last.task].context_key }

\* B logged its own scope and tag while another running task held values of its own
C1_Witness ==
    /\ last.task = "B"
    /\ last.raced
    /\ last.scope \in Pool("B")
    /\ last.key \in Pool("B")
    /\ Contains(last.text, Bracket(last.scope) \o << "[", "f" >>)

\* C2: what a task has set is what it reads and logs, whatever the other tasks
\* did in between: the two stores hold, in the context of every task, the values
\* the task started with or has set itself since; a line it logs starts with the
\* bracket of its own scope and carries the bracket of its own tag; and no value
\* of a child's pool is ever in the context of its sibling or of its parent.
C2_Visibility ==
    /\ \A t \in Tasks :
          (status[t] = "running" /\ Usable(ref[t])) =>
              /\ ctx[t][ExecVar(t)] = own[t].execution_context
              /\ ctx[t][KeyVar(t)] = own[t].context_key
    /\ last.task \in Tasks =>
          /\ Truthy(last.scope) =>
                SubSeq(last.text, 1, Len(last.scope) + 2) = Bracket(last.scope)
          /\ Truthy(last.key) => Contains(last.text, Bracket(last.key) \o << " " >>)
    /\ \A t \in Children : \A u \in Tasks \ { t } : \A x \in VarIds : ctx[u][x] \notin Pool(t)

\* A, started with main's scope, logged the tag it had set while another running
\* task held values of its own, after main had cleared its scope
C2_Witness ==
    /\ last.task = "A"
    /\ last.raced
    /\ last.key \in Pool("A")
    /\ last.scope \in Pool("main")
    /\ own["main"].execution_context = EmptyStr
    /\ own["A"] = [ execution_context |-> last.scope, context_key |-> last.key ]

-----------------------------------------------------------------------------
(* Construction *)

\* C3: once a Logger(...) call has completed, every call returns the instance the
\* first one returned, and the instance is as the first call and the setters left
\* it: one instance, the line-number flag and the level of the first call, the
\* two stores the first call created, holding what the task has set.
C3_Idempotent ==
    first.done =>
        /\ ref["main"] = first.instance
        /\ frame["main"].self = first.instance
        /\ SINGLETON_INSTANCE = first.instance
        /\ NumAllocated = 1
        /\ heap[first.instance] = InitBody(first.log_line_number, 0)
        /\ sink_level = first.logger_level
        /\ nvars = 2
        /\ ctx["main"][1] = own["main"].execution_context
        /\ ctx["main"][2] = own["main"].context_key

\* a later call passed another flag and another level, after the setters were used
C3_Witness ==
    /\ first.done
    /\ frame["main"].log_line_number # first.log_line_number
    /\ frame["main"].logger_level # first.logger_level
    /\ own["main"].execution_context \in Pool("main")
    /\ own["main"].context_key \in Pool("main")
    /\ last.task = "main"

-----------------------------------------------------------------------------
(* Line numbers *)

\* the stack with the calling frame moved to another source line
AtLine(stack, l) == [ stack EXCEPT ![1].f_lineno = l ]

FnBracketWithLine(l) == << "[" >> \o FnName \o << ":" >> \o IntToStr(l) \o << "]" >>
FnBracketBare == << "[" >> \o FnName \o << "]" >>

-----------------------------------------------------------------------------
(* Construction from two threads *)

\* C4: whatever the interleaving of two threads that construct the Logger, one
\* instance is allocated and both threads get it, the two stores are created once,
\* a thread whose call has returned holds an instance with every attribute set,
\* with the flag and level of the first call that returned, and reads back from
\* the stores what it has set.
C4_OneInstanceOneInit ==
    /\ NumAllocated <= 1
    /\ nvars <= 2
    /\ \A t \in Threads : \A u \in Threads :
          (pc[t] = "done" /\ pc[u] = "done") => ref[t] = ref[u]
    /\ \A t \in Threads :
          pc[t] = "done" =>
              /\ Usable(ref[t])
              /\ heap[ref[t]].log_line_number = first.log_line_number
              /\ sink_level = first.logger_level
              /\ ctx[t][ExecVar(t)] = own[t].execution_context
              /\ ctx[t][KeyVar(t)] = own[t].context_key

-----------------------------------------------------------------------------
(* Attribution and format of a line *)

\* index of the first "]" of s, 0 if there is none
FirstClose(s) ==
    IF \E i \in 1..Len(s) : s[i] = "]"
    THEN CHOOSE i \in 1..Len(s) : s[i] = "]" /\ \A j \in 1..(i - 1) : s[j] # "]"
    ELSE 0

RECURSIVE Brackets(_)
\* the contents of the brackets of a prefix "[x][y]..", in order; anything that is
\* not a run of brackets yields an element that no value equals
Brackets(s) ==
    IF s = EmptyStr THEN << >>
    ELSE IF s[1] # "[" \/ FirstClose(s) = 0 THEN << << "?" >> >>
    ELSE << SubSeq(s, 2, FirstClose(s) - 1) >> \o Brackets(SubSeq(s, FirstClose(s) + 1, Len(s)))

NonEmpty(x) == x # EmptyStr

\* the calling frame, and whether the resolver's loop reaches it
CallerFrame == call.stack[1]
Inspected == call.inspect = "" /\ Len(call.stack) > 1

\* the scope a line is expected to show: the task's own, else the request id
ExpectedScope ==
    IF last.scope # EmptyStr THEN last.scope
    ELSE IF call.flask.kind = "request_id" THEN Rid ELSE EmptyStr

\* the content of the function bracket for the resolved caller
FnContent ==
    last.caller.name \o (IF first.log_line_number THEN << ":" >> \o last.caller.line ELSE EmptyStr)

\* s begins with p
HasPrefix(s, p) == Len(p) <= Len(s) /\ SubSeq(s, 1, Len(p)) = p

\* the claim of C5 as written, for a calling frame the resolver inspects: the kind
\* of the calling function decides the type name
C5_AsClaimed ==
    (last.task \in Tasks /\ Inspected) =>
        /\ CallerFrame.kind \in { "function", "staticmethod" } =>
              last.caller.class_name = EmptyStr
        /\ CallerFrame.kind \in { "method", "classmethod" } =>
              last.caller.class_name = CallerFrame.receiver.class.name

\* C5: for a calling frame the resolver inspects, the names of the locals decide:
\* a function or static method with no local called self or cls gets no type name;
\* a method whose receiver is bound to `self` gets the name of the receiver's
\* type; a class method whose class is bound to `cls`, with no local called self,
\* gets the name of the class; and the line shows that name right before the
\* function bracket.
C5_TypeName ==
    (last.task \in Tasks /\ Inspected) =>
        /\ (CallerFrame.kind \in { "function", "staticmethod" }
              /\ ~CallerFrame.self.present /\ ~CallerFrame.cls.present) =>
                  /\ last.caller.class_name = EmptyStr
                  /\ HasPrefix(last.prefix,
                               (IF ExpectedScope = EmptyStr THEN EmptyStr
                                ELSE Bracket(ExpectedScope)) \o << "[" >> \o CallerFrame.co_name)
        /\ (CallerFrame.kind = "method" /\ CallerFrame.self = CallerFrame.receiver) =>
              /\ last.caller.class_name = CallerFrame.receiver.class.name
              /\ Contains(last.prefix,
                          Bracket(CallerFrame.receiver.class.name) \o << "[" >> \o CallerFrame.co_name)
        /\ (CallerFrame.kind = "classmethod" /\ CallerFrame.cls = CallerFrame.receiver
              /\ ~CallerFrame.self.present) =>
              /\ last.caller.class_name = CallerFrame.receiver.class.name
              /\ Contains(last.prefix,
                          Bracket(CallerFrame.receiver.class.name) \o << "[" >> \o CallerFrame.co_name)

\* a method with a local called cls besides its self, logged with its receiver's type
C5_Witness ==
    /\ last.task = "main"
    /\ Inspected
    /\ CallerFrame.kind = "method"
    /\ CallerFrame.self = CallerFrame.receiver
    /\ CallerFrame.cls.present
    /\ last.caller.class_name = Worker.name
    /\ Contains(last.prefix, Bracket(Worker.name) \o << "[" >> \o FnName)

\* C6: the prefix is exactly the brackets of the resolved scope, the type name, the
\* function name (with its line when lines are on) and the tag, in that order, one
\* bracket for each of the four that is not empty and no other.
C6_PrefixOrder ==
    last.task \in Tasks =>
        Brackets(last.prefix) =
            SelectSeq(<< ExpectedScope, last.caller.class_name,
                         IF last.caller.name = EmptyStr THEN EmptyStr ELSE FnContent,
                         last.key >>, NonEmpty)

\* a line with all four brackets, and the same call site without scope and tag
C6_Witness ==
    /\ last.task = "main"
    /\ Len(Brackets(last.prefix)) = 4
    /\ Brackets(last.prefix)[1] = Rid
    /\ last.scope = EmptyStr
    /\ last.key # EmptyStr
    /\ last.log_line_number

\* number of times v occurs in s
Occurrences(s, v) ==
    Cardinality({ i \in 1..(Len(s) - Len(v) + 1) : SubSeq(s, i, i + Len(v) - 1) = v })

\* the claim of C7 as written: no type bracket for the name Logger, no function
\* bracket for a function named like the type
C7_AsClaimed ==
    last.task \in Tasks =>
        /\ last.caller.class_name = LoggerName =>
              ~Contains(last.prefix, Bracket(LoggerName))
        /\ (last.caller.name # EmptyStr /\ last.caller.name = last.caller.class_name) =>
              Occurrences(last.prefix, << "[" >> \o last.caller.name) <= 1

\* C7: the formatter of master_logger.py compares no names: a resolved type name
\* is printed also when it is "Logger", and a resolved function name also when it
\* equals the type name. What keeps the facility's own type out of the line is the
\* resolver, which skips the frames whose self is a Logger: the caller it resolves
\* is the program's calling frame, never a frame of the Logger. The two
\* suppressions are those of the formatter of the sequential master-logger.py.
C7_NoSuppression ==
    last.task \in Tasks =>
        /\ last.caller.class_name # EmptyStr =>
              Contains(last.prefix, Bracket(last.caller.class_name) \o << "[" >> \o last.caller.name)
        /\ (last.caller.name # EmptyStr /\ last.caller.name = last.caller.class_name) =>
              Occurrences(last.prefix, << "[" >> \o last.caller.name) = 2
        /\ (Inspected /\ last.caller.ok) =>
              /\ last.caller.name = CallerFrame.co_name
              /\ last.caller.line = IntToStr(CallerFrame.f_lineno)
        /\ LET old == legacy_get_context_string(ExpectedScope, last.caller.class_name,
                                                last.caller.name, last.key)
           IN  /\ last.caller.class_name = LoggerName => ~Contains(old, Bracket(LoggerName))
               /\ last.caller.name # EmptyStr =>
                     Occurrences(old, << "[" >> \o last.caller.name) <= 1

\* a method named like its class logged [W][W..], with no scope set
C7_Witness ==
    /\ last.task = "main"
    /\ last.caller.class_name = Worker.name
    /\ last.caller.name = Worker.name
    /\ HasPrefix(last.prefix, Bracket(Worker.name) \o << "[" >> \o Worker.name)

\* C8: every severity method hands the sink the prefix, then the message, with one
\* space between them unless the message begins with "[", and then with nothing
\* between them; with scope m1 and no caller and tag, "hello" gives "[m1] hello"
\* and "[x] hello" gives "[m1][x] hello".
C8_Spacing ==
    last.task \in Tasks =>
        LET n == Len(last.prefix)
            m == call.message
        IN  /\ HasPrefix(last.text, last.prefix)
            /\ IF m # EmptyStr /\ m[1] = "["
               THEN /\ Len(last.text) = n + Len(m)
                    /\ SubSeq(last.text, n + 1, Len(last.text)) = m
               ELSE /\ Len(last.text) = n + 1 + Len(m)
                    /\ last.text[n + 1] = " "
                    /\ SubSeq(last.text, n + 2, Len(last.text)) = m
            /\ (last.scope = << "m", "1" >> /\ last.key = EmptyStr /\ last.caller.name = EmptyStr) =>
                  /\ m = Hello => last.text = << "[", "m", "1", "]", " " >> \o Hello
                  /\ m = << "[", "x", "]", " " >> \o Hello =>
                        last.text = << "[", "m", "1", "]", "[", "x", "]", " " >> \o Hello

\* logger.exception logged "[m1][x] hello"
C8_Witness ==
    /\ last.task = "main"
    /\ last.levelname = "EXCEPTION"
    /\ last.exc_info
    /\ last.text = << "[", "m", "1", "]", "[", "x", "]", " " >> \o Hello

\* C10: the scope of a line is the one the task has set when that is not empty,
\* and flask is then not consulted; otherwise flask is consulted and the scope is
\* the request id of the request in flight, or nothing; an empty tag has no
\* bracket and nothing stands in for it.
C10_Fallback ==
    last.task \in Tasks =>
        /\ last.consulted <=> last.scope = EmptyStr
        /\ IF ExpectedScope = EmptyStr
           THEN Len(Brackets(last.prefix)) =
                    Len(SelectSeq(<< last.caller.class_name, last.caller.name, last.key >>, NonEmpty))
           ELSE HasPrefix(last.prefix, Bracket(ExpectedScope))
        /\ last.scope # EmptyStr => ~Contains(last.prefix, Rid)
        /\ last.key = EmptyStr =>
              Len(Brackets(last.prefix)) =
                  Len(SelectSeq(<< ExpectedScope, last.caller.class_name, last.caller.name >>,
                                NonEmpty))

\* the task had set a scope, a request with an id was in flight, the line shows the
\* task's scope
C10_Witness ==
    /\ last.task = "main"
    /\ last.scope \in Pool("main")
    /\ call.flask.kind = "request_id"
    /\ ~last.consulted
    /\ HasPrefix(last.prefix, Bracket(last.scope))
    /\ last.key = EmptyStr

-----------------------------------------------------------------------------
(* Failures inside a log call *)

\* the inspection of the call site raises: inspect.stack() does, or _get_class_name
\* does on a local cls that is not a class
ResolutionFails == ResolutionError(call.inspect, InspectStack("DEBUG", call.stack)) # ""

\* the prefix of a line without attribution: the scope and the tag that are not empty
ScopeAndTag == OptBracket(ExpectedScope) \o OptBracket(last.key)

\* C11: when the inspection of the call stack raises during a log call, the error
\* of the inspection does not leave the call, and the call raises nothing when the
\* flask lookup raises nothing; the line is written to the sink with no type name,
\* no function name and no line number: it is the brackets of the scope and of the
\* tag that are not empty, followed by the message.
C11_Degradation ==
    ResolutionFails =>
        /\ raised["main"] \notin { "AttributeError", "IndexError", "OSError" }
        /\ call.flask.kind \in FlaskReturns => raised["main"] = ""
        /\ last.task \in Tasks =>
              /\ last.written
              /\ last.caller.class_name = EmptyStr
              /\ last.caller.name = EmptyStr
              /\ last.caller.line = EmptyStr
              /\ last.prefix = ScopeAndTag
              /\ last.text \in { ScopeAndTag \o call.message,
                                 ScopeAndTag \o << " " >> \o call.message }

\* inspect.stack() raised at a call made from a method, the task had set a scope
\* and a tag, and the line written has those two brackets and the message
C11_Witness ==
    /\ call.inspect \in InspectErrors
    /\ raised["main"] = ""
    /\ last.task = "main"
    /\ last.written
    /\ last.scope \in Pool("main")
    /\ last.key \in Pool("main")
    /\ last.prefix = Bracket(last.scope) \o Bracket(last.key)
    /\ last.text = last.prefix \o << " " >> \o Hello

\* C12: whatever makes the flask lookup fail (flask is not installed, or the
\* import or the read of the request id raises an error of any class), the log
\* call raises nothing, and the line it writes has no scope bracket unless the
\* task has set a scope.
C12_NeverSurfaced ==
    call.flask.kind \notin FlaskReturns =>
        /\ raised["main"] = ""
        /\ (last.task \in Tasks /\ last.scope = EmptyStr) =>
              Brackets(last.prefix) =
                  SelectSeq(<< last.caller.class_name,
                               IF last.caller.name = EmptyStr THEN EmptyStr ELSE FnContent,
                               last.key >>, NonEmpty)

\* the frames of the last call that are not frames of a Logger method, innermost first
NonFacility ==
    SelectSeq(InspectStack(last.levelname, call.stack),
              LAMBDA f : TypeOf(f.self) # LoggerClass)

\* C13: when the inspection raises nothing, the function name and the line number
\* of a line are those of the innermost frame that is not a frame of the Logger,
\* for every stack that has such a frame, the stack of a call made at the top level
\* of a module included.
C13_FirstNonFacility ==
    (last.task \in Tasks /\ ~ResolutionFails /\ Len(NonFacility) > 0) =>
        /\ last.caller.name = NonFacility[1].co_name
        /\ last.caller.line = IntToStr(NonFacility[1].f_lineno)

====
